---- MODULE Spec2Model ----
(***************************************************************************)
(* Model of the social-media-ad-generator session and conversation state   *)
(* machines:                                                               *)
(*   - SocialMediaAdAgent (agent.py): the session store and its            *)
(*     stage-gated operations;                                             *)
(*   - ConversationalAdAgent (chat_agent.py): the conversation store, the  *)
(*     turn handler process_message, the status poll and the background    *)
(*     generation task;                                                    *)
(*   - AdGenerator._generate_ads_internal (ad_generator.py): the fan-out   *)
(*     over the four ad variations.                                        *)
(* The image analyzer, the question engine and the per-variation image     *)
(* call are collaborators: what they return for an input is modelled, and  *)
(* that they may raise is an input of the action that calls them.          *)
(* Texts are strings over letters and single spaces.                       *)
(***************************************************************************)
EXTENDS Naturals, Sequences, FiniteSets, TLC

VARIABLES
    sessions,        \* SocialMediaAdAgent.sessions: session id -> record
    next_session,    \* the next fresh session id (uuid4 in the code)
    conversations,   \* ConversationalAdAgent.conversations: id -> record
    tasks,           \* generate_ads invocations: background tasks and direct calls
    last,            \* the last public call and what it returned
    batch,           \* one run of AdGenerator._generate_ads_internal
    current_session  \* SocialMediaAdAgentWrapper.current_session

vars ==
    <<sessions, next_session, conversations, tasks, last, batch, current_session>>

-----------------------------------------------------------------------------
(* Bounds of the model *)

\* sessions the conversational agent starts (one for every upload attempt)
MaxSessions ==
    2

\* entries of a conversation history: the whole path to the generation and
\* one more turn, or a failed upload and the whole path
MaxHistory ==
    13

\* conversation records stored under one id, one after the other
MaxConversations ==
    2

\* direct generate_ads calls awaiting the ad generator at once
MaxCalls ==
    2

\* sessions started through the core agent directly
MaxAgentSessions ==
    1

\* sessions the wrapper starts: a second one shows what a removal leaves alone
MaxWrapperSessions ==
    2

-----------------------------------------------------------------------------
(* Optional values: Python None is the empty tuple, a value x is <<x>> *)

None ==
    <<>>

Some(x) ==
    <<x>>

-----------------------------------------------------------------------------
(* Texts *)

\* Python: needle in hay
Contains(needle, hay) ==
    \E i \in 1..(Len(hay) + 1) :
        /\ i + Len(needle) - 1 <= Len(hay)
        /\ SubSeq(hay, i, i + Len(needle) - 1) = needle

ContainsAny(needles, hay) ==
    \E n \in needles : Contains(n, hay)

UpperLetters ==
    "ABCDEFGHIJKLMNOPQRSTUVWXYZ"

LowerLetters ==
    "abcdefghijklmnopqrstuvwxyz"

\* str.lower() on one character: a capital letter becomes its small letter
LowerChar(c) ==
    IF \E i \in 1..Len(UpperLetters) : SubSeq(UpperLetters, i, i) = c
    THEN LET i == CHOOSE i \in 1..Len(UpperLetters) : SubSeq(UpperLetters, i, i) = c
         IN  SubSeq(LowerLetters, i, i)
    ELSE c

\* Python: str.lower()
RECURSIVE Lower(_)
Lower(s) ==
    IF Len(s) = 0 THEN s
    ELSE LowerChar(SubSeq(s, 1, 1)) \o Lower(SubSeq(s, 2, Len(s)))

\* Python: str.strip()
RECURSIVE Strip(_)
Strip(s) ==
    IF Len(s) = 0 THEN s
    ELSE IF SubSeq(s, 1, 1) = " " THEN Strip(SubSeq(s, 2, Len(s)))
    ELSE IF SubSeq(s, Len(s), Len(s)) = " " THEN Strip(SubSeq(s, 1, Len(s) - 1))
    ELSE s

\* The user messages the model sends
Messages ==
    {"Yes, no change", "no change", "luxury for young women"}

\* Every text the model hands to a text function
Texts ==
    Messages \cup {" Yes ", "young women", "luxury", "professional"}

\* str.lower() on the texts of the model, computed once
LowerOf ==
    [t \in Texts |-> Lower(t)]

lower(t) ==
    IF t \in Texts THEN LowerOf[t] ELSE Lower(t)

-----------------------------------------------------------------------------
(* models/types.py *)

AdVariations ==
    <<"lifestyle", "product_hero", "benefit_focused", "social_proof">>

AdVariationType ==
    {AdVariations[i] : i \in DOMAIN AdVariations}

BrandTone ==
    {"professional", "playful", "luxury", "minimalist", "bold", "friendly",
     "sophisticated"}

-----------------------------------------------------------------------------
(* tools/image_analyzer.py *)

\* An image file: the base name of its path, whether _validate_image accepts
\* it, its size, and the number of distinct colours of its 100x100 thumbnail
ImageFile(filename, valid, width, height, colours) ==
    [filename |-> filename, valid |-> valid, width |-> width, height |-> height,
     colours |-> colours]

CorruptImage ==
    ImageFile("photo.png", FALSE, 4, 4, 1)

ColorfulImage ==
    ImageFile("photo.png", TRUE, 4, 4, 16)

PlainImage ==
    ImageFile("photo.png", TRUE, 4, 4, 1)

WideImage ==
    ImageFile("photo.png", TRUE, 8, 2, 1)

ShoeImage ==
    ImageFile("Shoe.png", TRUE, 4, 4, 1)

\* The image files the model uploads
Images ==
    {CorruptImage, ColorfulImage, PlainImage, WideImage, ShoeImage}

\* _classify_product: the keyword lists, in the order they are tried
CategoryKeywords ==
    <<[category |-> "fashion",
       words |-> {"fashion", "clothing", "shirt", "dress", "shoe", "bag"}],
      [category |-> "electronics",
       words |-> {"electronic", "phone", "laptop", "camera", "tech"}],
      [category |-> "food_beverage",
       words |-> {"food", "drink", "coffee", "cake", "restaurant"}],
      [category |-> "home_garden",
       words |-> {"home", "furniture", "decor", "kitchen", "garden"}],
      [category |-> "beauty_personal_care",
       words |-> {"beauty", "cosmetic", "skincare", "makeup"}],
      [category |-> "sports_outdoors",
       words |-> {"sport", "fitness", "outdoor", "gym"}],
      [category |-> "automotive", words |-> {"car", "auto", "vehicle"}],
      [category |-> "books_media", words |-> {"book", "media", "music", "movie"}],
      [category |-> "toys_games", words |-> {"toy", "game", "play"}],
      [category |-> "services", words |-> {"service", "consulting", "business"}]>>

\* _extract_dominant_colors: most_common(5) of the thumbnail's colours
dominant_colors(img) ==
    IF img.colours < 5 THEN img.colours ELSE 5

\* _classify_product: the first keyword list with a word in the lowered file
\* name decides; without one, the shape and the colours of the image do
classify_product(img) ==
    LET filename == Lower(img.filename)
        hits == {k \in DOMAIN CategoryKeywords :
                    ContainsAny(CategoryKeywords[k].words, filename)}
    IN  IF hits # {}
        THEN CategoryKeywords[CHOOSE k \in hits : \A h \in hits : k <= h].category
        ELSE IF 2 * img.width > 3 * img.height THEN "electronics"
        ELSE IF dominant_colors(img) > 3 THEN "fashion"
        ELSE "other"

\* os.path.splitext(name)[1]: from the last dot on, unless only dots precede it
splitext(name) ==
    LET dots == {i \in 1..Len(name) : SubSeq(name, i, i) = "."}
        lead == {i \in dots : \A j \in 1..i : j \in dots}
    IN  IF dots \ lead = {} THEN ""
        ELSE LET i == CHOOSE i \in dots : \A j \in dots : j <= i
             IN  SubSeq(name, i, Len(name))

\* _handle_image_upload: the upload is saved as product_<conversation id>_<8 hex
\* digits><extension>; the ids, hex digits and dashes, are left out of the name
permanent_path(image) ==
    [image EXCEPT !.filename = "product_" \o splitext(image.filename)]

\* _classify_product on the image files of the model, computed once
CategoryOf ==
    [img \in Images \cup {permanent_path(i) : i \in Images} |-> classify_product(img)]

\* analyze_image: None stands for the analyzer raising (_validate_image)
analyze_image(img) ==
    IF ~img.valid THEN None
    ELSE Some([category |-> IF img \in DOMAIN CategoryOf THEN CategoryOf[img]
                            ELSE classify_product(img)])

-----------------------------------------------------------------------------
(* tools/question_engine.py *)

\* prompts/question_templates.py base_questions, as generate_questions returns
BaseQuestions ==
    <<"target_audience", "brand_tone", "key_message">>

ToneOrder ==
    <<"professional", "playful", "luxury", "minimalist", "bold", "friendly",
      "sophisticated">>

ToneKeywords(tone) ==
    CASE tone = "professional" ->
            {"professional", "business", "corporate", "formal", "serious"}
      [] tone = "playful" ->
            {"playful", "fun", "energetic", "casual", "vibrant", "colorful"}
      [] tone = "luxury" ->
            {"luxury", "premium", "high-end", "exclusive", "sophisticated", "elegant"}
      [] tone = "minimalist" ->
            {"minimalist", "simple", "clean", "minimal", "understated"}
      [] tone = "bold" ->
            {"bold", "strong", "dramatic", "striking", "powerful", "intense"}
      [] tone = "friendly" ->
            {"friendly", "warm", "approachable", "welcoming", "kind", "caring"}
      [] OTHER ->
            {"sophisticated", "refined", "cultured", "tasteful", "classy"}

\* _extract_brand_tone: the first tone of the mapping with a keyword in the text
RECURSIVE FirstTone(_, _)
FirstTone(text, i) ==
    IF i > Len(ToneOrder) THEN "professional"
    ELSE IF ContainsAny(ToneKeywords(ToneOrder[i]), text) THEN ToneOrder[i]
    ELSE FirstTone(text, i + 1)

extract_brand_tone(response_text) ==
    FirstTone(response_text, 1)

\* _extract_tone_keywords returns a non-empty list
has_tone_keywords(response_text) ==
    ContainsAny({"professional", "playful", "luxury", "minimalist", "bold",
                 "friendly", "sophisticated", "casual", "formal", "elegant",
                 "modern", "traditional", "vibrant", "subtle", "energetic",
                 "calm"}, response_text)

\* _extract_demographics returns a non-empty dict (texts without digits)
has_demographics(response_text) ==
    \/ ContainsAny({"teen", "teenager", "young", "adult", "senior", "elderly",
                    "millennial", "genz", "gen z", "boomer"}, response_text)
    \/ ContainsAny({"women", "female", "men", "male", "unisex", "all genders",
                    "everyone"}, response_text)
    \/ ContainsAny({"fitness", "fashion", "tech", "business", "family",
                    "travel", "food", "music", "sports"}, response_text)

\* _extract_call_to_action returns a match (texts with single spaces)
has_call_to_action(response_text) ==
    ContainsAny({"buy now", "shop now", "get yours", "order today",
                 "learn more", "find out", "discover", "sign up", "register",
                 "subscribe", "contact us", "call now", "book now", "try it",
                 "test it", "experience"}, response_text)

\* _process_response_internal: the processed_response dict, by the keys the
\* callers read
process_response(question_id, response) ==
    LET response_text == Strip(Lower(response))
    IN  [target_audience |->
            IF question_id = "target_audience" THEN Some(Strip(response)) ELSE None,
         brand_tone |->
            IF question_id = "brand_tone"
            THEN Some(extract_brand_tone(response_text)) ELSE None,
         key_message |->
            IF question_id = "key_message" THEN Some(Strip(response)) ELSE None,
         demographics |->
            question_id = "target_audience" /\ has_demographics(response_text),
         tone_keywords |->
            question_id = "brand_tone" /\ has_tone_keywords(response_text),
         call_to_action |->
            question_id = "key_message" /\ has_call_to_action(response_text)]

\* process_response on the questions and texts of the model, computed once
ProcessedOf ==
    [q \in {BaseQuestions[i] : i \in DOMAIN BaseQuestions}, t \in Texts |->
        process_response(q, t)]

processed_response(question_id, response) ==
    IF <<question_id, response>> \in DOMAIN ProcessedOf
    THEN ProcessedOf[question_id, response]
    ELSE process_response(question_id, response)

-----------------------------------------------------------------------------
(* tools/ad_generator.py: the result of one batch *)

RECURSIVE valid_ads_until(_, _)
valid_ads_until(outcome, i) ==
    IF i > Len(AdVariations) THEN <<>>
    ELSE IF outcome[i] THEN <<AdVariations[i]>> \o valid_ads_until(outcome, i + 1)
    ELSE <<>>

\* the filter after asyncio.gather(..., return_exceptions=True)
RECURSIVE valid_ads(_, _)
valid_ads(outcome, i) ==
    IF i > Len(AdVariations) THEN <<>>
    ELSE IF outcome[i] THEN <<AdVariations[i]>> \o valid_ads(outcome, i + 1)
    ELSE valid_ads(outcome, i + 1)

batch_success_all(generated_ads) ==
    Len(generated_ads) = Len(AdVariations)

batch_success(generated_ads) ==
    Len(generated_ads) > 0

AdGenerationResult_silent(generated_ads) ==
    [ads |-> generated_ads,
     success |-> batch_success(generated_ads),
     error_message |-> None]

\* AdGenerationResult(...) built from the ads that were generated
AdGenerationResult(generated_ads) ==
    [ads |-> generated_ads,
     success |-> batch_success(generated_ads),
     error_message |->
        IF Len(generated_ads) > 0 THEN None
        ELSE Some("Failed to generate any ads")]

\* what AdGenerator.generate_ads does for the caller: it raises, or it returns
\* the batch result for the outcome of the four variations
\* (the session and conversation specifications use three of the sixteen
\* outcomes: all four succeed, the second and fourth fail, all four fail)
GenOutcomes ==
    {[raises |-> TRUE, outcome |-> [i \in DOMAIN AdVariations |-> FALSE]]}
    \cup {[raises |-> FALSE, outcome |-> o] :
            o \in {[i \in DOMAIN AdVariations |-> TRUE],
                   [i \in DOMAIN AdVariations |-> i \in {1, 3}],
                   [i \in DOMAIN AdVariations |-> FALSE]}}

-----------------------------------------------------------------------------
(* agent.py: SocialMediaAdAgent *)

\* start_session: the record of a new session
NewSession ==
    [stage |-> "upload",
     image_analysis |-> None,
     product_image_path |-> None,
     questions |-> <<>>,
     responses |-> <<>>,
     generation_result |-> None]

Result(ss, kind) ==
    [sessions |-> ss, kind |-> kind]

upload_gate_open(stage) ==
    stage \in {"upload", "questions"}

upload_gate(stage) ==
    stage = "upload"

answers_gate_open(stage) ==
    stage \in {"questions", "completed"}

answers_gate(stage) ==
    stage = "questions"

generation_gate(stage) ==
    stage = "generation"

upload_image_eager(ss, sid, img, qe_ok) ==
    IF sid \notin DOMAIN ss THEN Result(ss, "not_found")
    ELSE IF ~upload_gate(ss[sid].stage) THEN Result(ss, "invalid_state")
    ELSE LET stored == [ss EXCEPT ![sid].product_image_path = Some(img)]
         IN  IF analyze_image(img) = None THEN Result(stored, "failed")
             ELSE Result([stored EXCEPT ![sid].image_analysis = analyze_image(img),
                                        ![sid].stage = "questions",
                                        ![sid].questions =
                                            IF qe_ok THEN BaseQuestions ELSE <<>>],
                         IF qe_ok THEN "ok" ELSE "failed")

\* upload_image: kind is "ok", "failed" (success False), or the ValueError raised
upload_image(ss, sid, img, qe_ok) ==
    IF sid \notin DOMAIN ss THEN Result(ss, "not_found")
    ELSE IF ~upload_gate(ss[sid].stage) THEN Result(ss, "invalid_state")
    ELSE IF analyze_image(img) = None THEN Result(ss, "failed")
    ELSE LET analysed == [ss EXCEPT ![sid].image_analysis = analyze_image(img),
                                    ![sid].product_image_path = Some(img),
                                    ![sid].stage = "questions"]
         IN  IF ~qe_ok THEN Result(analysed, "failed")
             ELSE Result([analysed EXCEPT ![sid].questions = BaseQuestions], "ok")

\* the loop of submit_answers over answers[1..n]
RECURSIVE processed_responses(_, _)
processed_responses(answers, n) ==
    IF n = 0 THEN <<>>
    ELSE Append(processed_responses(answers, n - 1),
                [question_id |-> answers[n].question_id,
                 response |-> answers[n].response,
                 processed_response |->
                    processed_response(answers[n].question_id, answers[n].response)])

submit_answers_prefix(ss, sid, answers, fail_at) ==
    IF sid \notin DOMAIN ss THEN Result(ss, "not_found")
    ELSE IF ~answers_gate(ss[sid].stage) THEN Result(ss, "invalid_state")
    ELSE IF fail_at \in DOMAIN answers
    THEN Result([ss EXCEPT ![sid].responses =
                              processed_responses(answers, fail_at - 1)], "failed")
    ELSE Result([ss EXCEPT ![sid].responses = processed_responses(answers, Len(answers)),
                           ![sid].stage = "generation"], "ok")

\* submit_answers: fail_at = 0 when no answer raises, else the index of the
\* answer whose processing raises
submit_answers(ss, sid, answers, fail_at) ==
    IF sid \notin DOMAIN ss THEN Result(ss, "not_found")
    ELSE IF ~answers_gate(ss[sid].stage) THEN Result(ss, "invalid_state")
    ELSE IF fail_at \in DOMAIN answers THEN Result(ss, "failed")
    ELSE Result([ss EXCEPT ![sid].responses = processed_responses(answers, Len(answers)),
                           ![sid].stage = "generation"], "ok")

\* generate_ads up to the await of the ad generator: the checks that raise
generate_ads_begin(ss, sid) ==
    IF sid \notin DOMAIN ss THEN "not_found"
    ELSE IF ~generation_gate(ss[sid].stage) THEN "invalid_state"
    ELSE IF ss[sid].image_analysis = None \/ ss[sid].responses = <<>> THEN "missing_data"
    ELSE "awaiting"

\* generate_ads after the await: the result is written into the session dict
\* the call took from the store before the await; held: that dict is still the
\* one stored under sid (cleanup_session did not remove it and start_session
\* did not put a new record in its place)
generate_ads_end(ss, sid, held, gen) ==
    IF gen.raises THEN Result(ss, "failed")
    ELSE IF ~held \/ sid \notin DOMAIN ss THEN Result(ss, "ok")
    ELSE Result([ss EXCEPT ![sid].generation_result =
                               Some(AdGenerationResult(valid_ads(gen.outcome, 1))),
                           ![sid].stage = "completed"], "ok")

\* get_session_status: the ValueError for an unknown id, else a read of the record
get_session_status(ss, sid) ==
    IF sid \notin DOMAIN ss THEN Result(ss, "not_found")
    ELSE Result(ss, "ok")

\* the generate_ads calls awaiting on session sid lose the stored record: the
\* dict they hold is no longer the one in the store
detach(tsk, sid) ==
    [i \in DOMAIN tsk |->
        IF tsk[i].sid = sid /\ tsk[i].pc = "awaiting"
        THEN [tsk[i] EXCEPT !.held = FALSE]
        ELSE tsk[i]]

cleanup_session_all(ss, sid) ==
    IF sid \in DOMAIN ss THEN Result(<<>>, "true")
    ELSE Result(ss, "false")

\* cleanup_session
cleanup_session(ss, sid) ==
    IF sid \in DOMAIN ss
    THEN Result([s \in DOMAIN ss \ {sid} |-> ss[s]], "true")
    ELSE Result(ss, "false")

-----------------------------------------------------------------------------
(* What a public call returned *)

Reply(op, id, kind, stage) ==
    [op |-> op, id |-> id, kind |-> kind, stage |-> stage,
     qtype |-> "absent", qnum |-> 0, started |-> FALSE, complete |-> FALSE,
     ads |-> None, history |-> None, actions |-> "none"]

\* config.py: Config.concurrent_generations
concurrent_generations ==
    4

\* no batch of _generate_ads_internal is running. Of every variation the
\* batch keeps what the image API did (api), whether the placeholder was
\* rendered (mock), the image reference the call returned (image), and
\* whether _generate_single_ad returned or raised (outcome)
NoBatch ==
    [pc |-> "idle", concurrent_generations |-> concurrent_generations,
     client |-> TRUE,
     api |-> [i \in DOMAIN AdVariations |-> "pending"],
     mock |-> [i \in DOMAIN AdVariations |-> "pending"],
     image |-> [i \in DOMAIN AdVariations |-> "pending"],
     outcome |-> [i \in DOMAIN AdVariations |-> "pending"],
     generated_ads |-> <<>>, result |-> None]

\* what generate_content does when a client is configured: the response holds
\* image data, holds none, or the call (or saving its image) raises
ApiOutcomes ==
    {"image", "no_image_data", "raises"}

\* _generate_mock_image: the placeholder file, or the error of rendering it
generate_mock_image(mock_ok) ==
    IF mock_ok THEN "mock" ELSE "raised"

call_gemini_api_strict(client, api, mock_ok) ==
    IF ~client THEN generate_mock_image(mock_ok)
    ELSE IF api = "image" THEN "generated"
    ELSE "raised"

\* _call_gemini_api: the image reference it returns, or "raised"
call_gemini_api(client, api, mock_ok) ==
    IF ~client THEN generate_mock_image(mock_ok)
    ELSE IF api = "image" THEN "generated"
    ELSE generate_mock_image(mock_ok)

\* whether a call with these inputs renders the placeholder
mock_used(client, api) ==
    ~client \/ api # "image"

\* _generate_single_ad ended for variation i of batch b
single_ad(b, i, api, mock_ok) ==
    LET image == call_gemini_api(b.client, api, mock_ok)
    IN  [b EXCEPT !.api[i] = IF b.client THEN api ELSE "no_client",
                  !.mock[i] = IF ~mock_used(b.client, api) THEN "unused"
                              ELSE IF mock_ok THEN "rendered" ELSE "failed",
                  !.image[i] = image,
                  !.outcome[i] = IF image = "raised" THEN "raised" ELSE "ok"]

\* the inputs of one _generate_single_ad call that matter to it
SingleAdInputs(b) ==
    {in \in [api : ApiOutcomes, mock_ok : BOOLEAN] :
        /\ (~b.client => in.api = "raises")
        /\ (~mock_used(b.client, in.api) => in.mock_ok)}

-----------------------------------------------------------------------------
(* SpecAgent: the core agent called directly (adk_wrapper.py, adk_server.py) *)

SessionIds ==
    1..MaxAgentSessions

Answer(question_id, response) ==
    [question_id |-> question_id, response |-> response]

\* the answer lists a caller submits
AnswerLists ==
    {<<>>,
     <<Answer("key_message", " Yes ")>>,
     <<Answer("target_audience", "young women"), Answer("brand_tone", "luxury"),
       Answer("key_message", "no change")>>}

InitAgent ==
    /\ sessions = <<>>
    /\ next_session = 1
    /\ conversations = <<>>
    /\ tasks = <<>>
    /\ last = Reply("none", 0, "none", "absent")
    /\ batch = NoBatch
    /\ current_session = None

\* start_session: the record stored under sid is a new one, whatever was there
start_session(ss, sid) ==
    (sid :> NewSession) @@ [s \in DOMAIN ss \ {sid} |-> ss[s]]

\* start_session(session_id): without an id a fresh one is drawn (uuid4); with
\* an id the record goes under it, in place of the record it may hold
StartSession ==
    \E given \in {None} \cup {Some(s) : s \in SessionIds} :
        LET sid == IF given = None THEN next_session ELSE given[1]
        IN  /\ given = None => next_session <= MaxAgentSessions
            /\ sessions' = start_session(sessions, sid)
            /\ next_session' = IF sid >= next_session THEN sid + 1 ELSE next_session
            /\ tasks' = detach(tasks, sid)
            /\ last' = Reply("start_session", sid, "ok", "upload")
            /\ UNCHANGED <<conversations, batch, current_session>>

UploadImage ==
    \E sid \in SessionIds, img \in Images, qe_ok \in BOOLEAN :
        LET r == upload_image(sessions, sid, img, qe_ok)
        IN  /\ sessions' = r.sessions
            /\ last' = Reply("upload_image", sid, r.kind,
                             IF r.kind = "ok" THEN "questions" ELSE "absent")
            /\ UNCHANGED <<next_session, conversations, tasks, batch, current_session>>

SubmitAnswers ==
    \E sid \in SessionIds, answers \in AnswerLists :
        \E fail_at \in 0..Len(answers) :
            LET r == submit_answers(sessions, sid, answers, fail_at)
            IN  /\ sessions' = r.sessions
                /\ last' = Reply("submit_answers", sid, r.kind,
                                 IF r.kind = "ok" THEN "generation" ELSE "absent")
                /\ UNCHANGED <<next_session, conversations, tasks, batch, current_session>>

\* generate_ads called: it raises, or it reaches the await of the ad generator
GenerateAdsCall ==
    \E sid \in SessionIds :
        LET k == generate_ads_begin(sessions, sid)
        IN  /\ Len(tasks) < MaxCalls
            /\ tasks' = IF k = "awaiting"
                        THEN Append(tasks, [owner |-> 0, sid |-> sid, pc |-> "awaiting",
                                            held |-> TRUE, conv |-> 0, by |-> 0])
                        ELSE tasks
            /\ last' = Reply("generate_ads", sid, k, "absent")
            /\ UNCHANGED <<sessions, next_session, conversations, batch, current_session>>

RemoveAt(seq, i) ==
    SubSeq(seq, 1, i - 1) \o SubSeq(seq, i + 1, Len(seq))

\* the ad generator returns to a generate_ads call, which then returns
GenerateAdsReturn ==
    \E i \in DOMAIN tasks, gen \in GenOutcomes :
        LET r == generate_ads_end(sessions, tasks[i].sid, tasks[i].held, gen)
        IN  /\ tasks[i].owner = 0
            /\ tasks[i].pc = "awaiting"
            /\ sessions' = r.sessions
            /\ tasks' = RemoveAt(tasks, i)
            /\ last' = Reply("generate_ads", tasks[i].sid, r.kind,
                             IF r.kind = "ok" THEN "completed" ELSE "absent")
            /\ UNCHANGED <<next_session, conversations, batch, current_session>>

\* get_session_status: raises for an unknown id, else reports the stage
GetSessionStatus ==
    \E sid \in SessionIds :
        LET r == get_session_status(sessions, sid)
        IN  /\ sessions' = r.sessions
            /\ last' = Reply("get_session_status", sid, r.kind,
                             IF r.kind = "ok" THEN sessions[sid].stage ELSE "absent")
            /\ UNCHANGED <<next_session, conversations, tasks, batch, current_session>>

CleanupSession ==
    \E sid \in SessionIds \cup DOMAIN sessions :
        LET r == cleanup_session(sessions, sid)
        IN  /\ sessions' = r.sessions
            /\ tasks' = detach(tasks, sid)
            /\ last' = Reply("cleanup_session", sid, r.kind, "absent")
            /\ UNCHANGED <<next_session, conversations, batch, current_session>>

NextAgent ==
    \/ StartSession
    \/ UploadImage
    \/ SubmitAnswers
    \/ GenerateAdsCall
    \/ GenerateAdsReturn
    \/ GetSessionStatus
    \/ CleanupSession

SpecAgent ==
    InitAgent /\ [][NextAgent]_vars

-----------------------------------------------------------------------------
(* adk_wrapper.py: SocialMediaAdAgentWrapper *)

\* reset_session: the session store and current_session it leaves
reset_session(ss, current) ==
    [sessions |-> IF current # None THEN cleanup_session(ss, current[1]).sessions
                  ELSE ss,
     current_session |-> None]

\* process_image: a new session becomes the current one, then upload_image
WrapperProcessImage ==
    \E img \in Images, qe_ok \in BOOLEAN :
        LET sid == next_session
            r == upload_image((sid :> NewSession) @@ sessions, sid, img, qe_ok)
        IN  /\ next_session <= MaxWrapperSessions
            /\ sessions' = r.sessions
            /\ next_session' = sid + 1
            /\ current_session' = Some(sid)
            /\ last' = Reply("process_image", sid, r.kind,
                             IF r.kind = "ok" THEN "questions" ELSE "error")
            /\ UNCHANGED <<conversations, tasks, batch>>

\* submit_answers of the wrapper: every failure, raised or returned, is an
\* error reply
WrapperSubmitAnswers ==
    \E answers \in AnswerLists :
        \E fail_at \in 0..Len(answers) :
            IF current_session = None
            THEN /\ last' = Reply("wrapper_submit_answers", 0, "error", "absent")
                 /\ UNCHANGED <<sessions, next_session, conversations, tasks, batch,
                                current_session>>
            ELSE LET sid == current_session[1]
                     r == submit_answers(sessions, sid, answers, fail_at)
                 IN  /\ sessions' = r.sessions
                     /\ last' = IF r.kind = "ok"
                                THEN Reply("wrapper_submit_answers", sid, "ok",
                                           "ready_for_generation")
                                ELSE Reply("wrapper_submit_answers", sid, "error", "error")
                     /\ UNCHANGED <<next_session, conversations, tasks, batch,
                                    current_session>>

\* get_session_status of the wrapper
WrapperGetSessionStatus ==
    /\ last' = IF current_session = None
               THEN Reply("wrapper_status", 0, "ok", "no_session")
               ELSE LET sid == current_session[1]
                        r == get_session_status(sessions, sid)
                    IN  Reply("wrapper_status", sid, IF r.kind = "ok" THEN "ok" ELSE "error",
                              IF r.kind = "ok" THEN sessions[sid].stage ELSE "error")
    /\ UNCHANGED <<sessions, next_session, conversations, tasks, batch, current_session>>

\* generate_ads of the wrapper called: without a current session an error
\* reply; else generate_ads of the agent on the current session, which raises
\* (an error reply) or reaches the await of the ad generator
WrapperGenerateAdsCall ==
    IF current_session = None
    THEN /\ last' = Reply("wrapper_generate_ads", 0, "error", "absent")
         /\ UNCHANGED <<sessions, next_session, conversations, tasks, batch,
                        current_session>>
    ELSE LET sid == current_session[1]
             k == generate_ads_begin(sessions, sid)
         IN  /\ k = "awaiting" => Len(tasks) < MaxCalls
             /\ tasks' = IF k = "awaiting"
                         THEN Append(tasks, [owner |-> 0, sid |-> sid, pc |-> "awaiting",
                                             held |-> TRUE, conv |-> 0, by |-> 0])
                         ELSE tasks
             /\ last' = IF k = "awaiting"
                        THEN Reply("wrapper_generate_ads", sid, "awaiting", "absent")
                        ELSE Reply("wrapper_generate_ads", sid, "error", "error")
             /\ UNCHANGED <<sessions, next_session, conversations, batch,
                            current_session>>

\* the ad generator returns to generate_ads of the agent, which returns to the
\* wrapper: the reply names the session that is the current one by then
WrapperGenerateAdsReturn ==
    \E i \in DOMAIN tasks, gen \in GenOutcomes :
        LET r == generate_ads_end(sessions, tasks[i].sid, tasks[i].held, gen)
            current == IF current_session = None THEN 0 ELSE current_session[1]
        IN  /\ tasks[i].owner = 0
            /\ tasks[i].pc = "awaiting"
            /\ sessions' = r.sessions
            /\ tasks' = RemoveAt(tasks, i)
            /\ last' = IF r.kind = "ok"
                       THEN [Reply("wrapper_generate_ads", current, "ok", "completed")
                               EXCEPT !.ads = Some(valid_ads(gen.outcome, 1))]
                       ELSE Reply("wrapper_generate_ads", tasks[i].sid, "error", "error")
            /\ UNCHANGED <<next_session, conversations, batch, current_session>>

WrapperResetSession ==
    LET r == reset_session(sessions, current_session)
    IN  /\ sessions' = r.sessions
        /\ current_session' = r.current_session
        /\ tasks' = IF current_session # None THEN detach(tasks, current_session[1])
                    ELSE tasks
        /\ last' = Reply("reset_session", 0, "ok", "reset")
        /\ UNCHANGED <<next_session, conversations, batch>>

\* the wrapper's calls, and cleanup_session called on the agent it wraps
NextWrapper ==
    \/ WrapperProcessImage
    \/ WrapperSubmitAnswers
    \/ WrapperGenerateAdsCall
    \/ WrapperGenerateAdsReturn
    \/ WrapperGetSessionStatus
    \/ WrapperResetSession
    \/ CleanupSession

SpecWrapper ==
    InitAgent /\ [][NextWrapper]_vars

-----------------------------------------------------------------------------
(* chat_agent.py: ConversationalAdAgent *)

max_questions ==
    3

\* the identifiers start_conversation issues, and one it never issues
ConversationIds ==
    {1}

UnknownId ==
    2

\* start_conversation: the record of a new conversation, greeting in history;
\* created_at counts the records stored under the id
NewConversation ==
    [created_at |-> 1,
     stage |-> "greeting",
     session_id |-> None,
     image_uploaded |-> FALSE,
     image_analysis |-> None,
     product_image_path |-> None,
     collected_info |-> [target_audience |-> None, brand_tone |-> None,
                         key_message |-> None, additional_context |-> {}],
     current_question |-> None,
     questions_asked |-> 0,
     ready_for_generation |-> FALSE,
     generation_result |-> None,
     generation_error |-> None,
     conversation_history |-> 1]

\* _add_to_history: the history is modelled by its length
add_to_history(conv) ==
    [conv EXCEPT !.conversation_history = @ + 1]

\* dict.get(category, default) on a dict keyed by "ProductCategory.<NAME>":
\* the category of model_dump() is the enum member, equal to its value
BespokeFirst ==
    {"ProductCategory.FASHION", "ProductCategory.ELECTRONICS",
     "ProductCategory.FOOD_BEVERAGE", "ProductCategory.BEAUTY_PERSONAL_CARE",
     "ProductCategory.HOME_GARDEN", "ProductCategory.SPORTS_OUTDOORS"}

BespokeLater ==
    {"ProductCategory.FASHION", "ProductCategory.ELECTRONICS",
     "ProductCategory.FOOD_BEVERAGE"}

question_text(keys, category) ==
    IF category \in keys THEN category ELSE "generic"

question_type_swapped(n) ==
    CASE n = 1 -> "target_audience"
      [] n = 2 -> "key_message"
      [] n = 3 -> "brand_tone"

\* the type of question number n (_generate_first_question, _generate_next_question)
question_type(n) ==
    CASE n = 1 -> "target_audience"
      [] n = 2 -> "brand_tone"
      [] n = 3 -> "key_message"

\* the state a turn works on and what it answers
Turn(conv, ss, nxt, tsk, reply) ==
    [conv |-> conv, sessions |-> ss, next_session |-> nxt, tasks |-> tsk,
     reply |-> reply]

ChatReply(cid, kind, stage) ==
    Reply("process_message", cid, kind, stage)

\* the stage _handle_image_upload leaves stored when the upload fails
stage_after_failed_upload ==
    "analyzing_image"

\* _handle_image_upload; env.io_ok: saving the file succeeds
handle_image_upload(cid, conv, image, env) ==
    LET sid == next_session
        ss1 == (sid :> NewSession) @@ sessions
        c1 == [conv EXCEPT !.session_id = Some(sid),
                           !.stage = stage_after_failed_upload]
        path == permanent_path(image)
        c2 == [c1 EXCEPT !.product_image_path = Some(path)]
        r == upload_image(ss1, sid, path, env.qe_ok)
        category == r.sessions[sid].image_analysis[1].category
        c3 == [c2 EXCEPT !.image_uploaded = TRUE,
                         !.image_analysis = r.sessions[sid].image_analysis,
                         !.stage = "asking_questions",
                         !.current_question =
                            Some([type |-> question_type(1),
                                  question |-> question_text(BespokeFirst, category),
                                  category_context |-> category]),
                         !.questions_asked = 1]
    IN  IF ~env.io_ok
        THEN Turn(add_to_history(c1), ss1, sid + 1, tasks,
                  ChatReply(cid, "error", "waiting_for_image"))
        ELSE IF r.kind # "ok"
        THEN Turn(add_to_history(c2), r.sessions, sid + 1, tasks,
                  ChatReply(cid, "ok", "waiting_for_image"))
        ELSE Turn(add_to_history(c3), r.sessions, sid + 1, tasks,
                  [ChatReply(cid, "ok", "asking_questions") EXCEPT
                      !.qtype = question_type(1), !.qnum = 1])

process_user_response_audience(conv, response) ==
    [conv EXCEPT !.collected_info.target_audience = Some(response)]

\* _process_user_response: the answer stored under the type of the question
process_user_response(conv, response) ==
    LET qtype == conv.current_question[1].type
        processed == processed_response(qtype, response)
        extra == {k \in {"demographics", "tone_keywords", "call_to_action"} :
                    \/ k = "demographics" /\ processed.demographics
                    \/ k = "tone_keywords" /\ processed.tone_keywords
                    \/ k = "call_to_action" /\ processed.call_to_action}
        info == conv.collected_info
    IN  [conv EXCEPT !.collected_info =
            [target_audience |->
                IF qtype = "target_audience" THEN Some(response)
                ELSE info.target_audience,
             brand_tone |->
                IF qtype = "brand_tone" THEN processed.brand_tone
                ELSE info.brand_tone,
             key_message |->
                IF qtype = "key_message" THEN Some(response)
                ELSE info.key_message,
             additional_context |-> info.additional_context \cup extra]]

more_questions_early(conv) ==
    conv.questions_asked < max_questions - 1

\* _handle_question_response: another question follows the stored answer
more_questions(conv) ==
    conv.questions_asked < max_questions

\* _generate_next_question
generate_next_question(cid, conv) ==
    LET question_num == conv.questions_asked + 1
        category == conv.image_analysis[1].category
        c1 == [conv EXCEPT !.current_question =
                              Some([type |-> question_type(question_num),
                                    question |-> question_text(BespokeLater, category),
                                    category_context |-> category]),
                           !.questions_asked = question_num]
    IN  Turn(add_to_history(c1), sessions, next_session, tasks,
             [ChatReply(cid, "ok", "asking_questions") EXCEPT
                 !.qtype = question_type(question_num), !.qnum = question_num])

handle_question_response_stored(cid, conv, msg, env) ==
    LET c1 == process_user_response(conv, msg)
    IN  IF ~env.cls_ok
        THEN Turn(add_to_history(c1), sessions, next_session, tasks,
                  ChatReply(cid, "error", conv.stage))
        ELSE IF more_questions(c1) THEN generate_next_question(cid, c1)
        ELSE Turn(add_to_history([c1 EXCEPT !.stage = "ready_for_generation",
                                            !.ready_for_generation = TRUE]),
                  sessions, next_session, tasks,
                  ChatReply(cid, "ok", "ready_for_generation"))

\* _handle_question_response; env.cls_ok: the question engine does not raise
handle_question_response(cid, conv, msg, env) ==
    IF conv.current_question = None
    THEN Turn(conv, sessions, next_session, tasks, ChatReply(cid, "error", "absent"))
    ELSE IF ~env.cls_ok
    THEN \* the exception reaches process_message's handler
         Turn(add_to_history(conv), sessions, next_session, tasks,
              ChatReply(cid, "error", conv.stage))
    ELSE LET c1 == process_user_response(conv, msg)
         IN  IF more_questions(c1) THEN generate_next_question(cid, c1)
             ELSE Turn(add_to_history([c1 EXCEPT !.stage = "ready_for_generation",
                                                 !.ready_for_generation = TRUE]),
                       sessions, next_session, tasks,
                       [ChatReply(cid, "ok", "ready_for_generation") EXCEPT
                           !.actions = "generate_or_modify"])

is_affirmative(msg) ==
    ContainsAny({"yes", "generate", "start", "create"}, lower(msg))

is_negative(msg) ==
    ContainsAny({"no", "modify", "change"}, lower(msg))

\* the answers _start_ad_generation builds from collected_info
collected_answers(info) ==
    <<[question_id |-> "target_audience", response |-> info.target_audience],
      [question_id |-> "brand_tone", response |-> info.brand_tone],
      [question_id |-> "key_message", response |-> info.key_message]>>

\* UserResponse(response=None) fails validation inside submit_answers
first_missing(answers) ==
    IF \E i \in DOMAIN answers : answers[i].response = None
    THEN CHOOSE i \in DOMAIN answers :
            /\ answers[i].response = None
            /\ \A j \in 1..(i - 1) : answers[j].response # None
    ELSE 0

\* _start_ad_generation; env.fail_at: the answer whose processing raises, or 0
start_ad_generation(cid, conv, env) ==
    LET sid == conv.session_id[1]
        given == collected_answers(conv.collected_info)
        missing == first_missing(given)
        answers == [i \in DOMAIN given |->
                      [question_id |-> given[i].question_id,
                       response |-> IF given[i].response = None THEN ""
                                    ELSE given[i].response[1]]]
        r == submit_answers(sessions, sid, answers,
                            IF missing # 0 THEN missing ELSE env.fail_at)
        generating == [conv EXCEPT !.stage = "generating"]
    IN  IF r.kind \in {"not_found", "invalid_state"}
        THEN Turn(add_to_history([conv EXCEPT !.stage = "ready_for_generation"]),
                  r.sessions, next_session, tasks,
                  ChatReply(cid, "error", "ready_for_generation"))
        ELSE Turn(add_to_history(generating), r.sessions, next_session,
                  Append(tasks, [owner |-> cid, sid |-> sid, pc |-> "scheduled",
                            held |-> TRUE, conv |-> 0,
                            by |-> conv.created_at]),
                  [ChatReply(cid, "ok", "generating") EXCEPT !.started = TRUE])

handle_generation_request_modify(cid, conv, msg, env) ==
    IF is_affirmative(msg) THEN start_ad_generation(cid, conv, env)
    ELSE Turn(add_to_history(
                 IF is_negative(msg)
                 THEN [conv EXCEPT !.collected_info.key_message = Some(msg)]
                 ELSE conv),
              sessions, next_session, tasks,
              ChatReply(cid, "ok", "ready_for_generation"))

\* _handle_generation_request: the affirmative keywords are tested first;
\* _handle_modification_request offers the modify actions
handle_generation_request(cid, conv, msg, env) ==
    IF is_affirmative(msg) THEN start_ad_generation(cid, conv, env)
    ELSE Turn(add_to_history(conv), sessions, next_session, tasks,
              [ChatReply(cid, "ok", "ready_for_generation") EXCEPT
                  !.actions = IF is_negative(msg) THEN "modify" ELSE "generate_or_modify"])

\* _handle_completion_chat; with a stored result it is _present_results
handle_completion_chat(cid, conv) ==
    IF conv.generation_result # None \/ conv.stage = "completed"
    THEN Turn(add_to_history(conv), sessions, next_session, tasks,
              [ChatReply(cid, "ok", "completed") EXCEPT
                  !.ads = Some(conv.generation_result[1].ads),
                  !.actions = "new_product_customize_tips_download"])
    ELSE IF conv.stage = "generation_failed"
    THEN Turn(add_to_history([conv EXCEPT !.stage = "ready_for_generation"]),
              sessions, next_session, tasks,
              ChatReply(cid, "ok", "ready_for_generation"))
    ELSE Turn(add_to_history(conv), sessions, next_session, tasks,
              ChatReply(cid, "ok", "generating"))

stage_handler_retry(stage) ==
    IF stage = "generation_failed" THEN "ready_for_generation"
    ELSE IF stage \in {"greeting", "waiting_for_image", "analyzing_image",
                       "asking_questions", "ready_for_generation", "generating",
                       "completed"}
    THEN stage
    ELSE "unknown"

\* the handler process_message picks for a stored stage
stage_handler(stage) ==
    IF stage \in {"greeting", "waiting_for_image", "analyzing_image",
                  "asking_questions", "ready_for_generation", "generating",
                  "completed"}
    THEN stage
    ELSE "unknown"

route_to_upload_always(conv, image) ==
    image # None

\* process_message: image bytes go to _handle_image_upload until an upload succeeded
route_to_upload(conv, image) ==
    image # None /\ ~conv.image_uploaded

\* process_message for a known conversation, after the user message is added
\* to the history
dispatch(cid, conv, msg, image, env) ==
    LET h == stage_handler(conv.stage)
        same(stage) == Turn(add_to_history(conv), sessions, next_session, tasks,
                            ChatReply(cid, "ok", stage))
        upload_please == [ChatReply(cid, "ok", "waiting_for_image") EXCEPT
                            !.actions = "upload_image"]
    IN  IF route_to_upload(conv, image)
        THEN handle_image_upload(cid, conv, image[1], env)
        ELSE CASE h = "greeting" ->
                    Turn(add_to_history([conv EXCEPT !.stage = "waiting_for_image"]),
                         sessions, next_session, tasks, upload_please)
               [] h = "waiting_for_image" ->
                    Turn(add_to_history(conv), sessions, next_session, tasks,
                         upload_please)
               [] h = "analyzing_image" ->
                    Turn(conv, sessions, next_session, tasks,
                         ChatReply(cid, "ok", "asking_questions"))
               [] h = "asking_questions" ->
                    handle_question_response(cid, conv, msg, env)
               [] h = "ready_for_generation" ->
                    handle_generation_request(cid, conv, msg, env)
               [] h = "generating" -> same("generating")
               [] h = "completed" -> handle_completion_chat(cid, conv)
               [] OTHER -> same("waiting_for_image")

\* what the collaborators do during one turn
TurnEnvs ==
    [io_ok : BOOLEAN, qe_ok : BOOLEAN, cls_ok : BOOLEAN, fail_at : 0..3]

\* the collaborators a turn calls: the others are left at their defaults
RelevantEnvs(conv, msg, image) ==
    LET upload == route_to_upload(conv, image)
        asking == ~upload /\ conv.stage = "asking_questions"
        starting == ~upload /\ conv.stage = "ready_for_generation"
                        /\ is_affirmative(msg)
    IN  {env \in TurnEnvs :
            /\ (~upload => env.io_ok /\ env.qe_ok)
            /\ (upload /\ ~env.io_ok => env.qe_ok)
            /\ (~asking => env.cls_ok)
            /\ (~starting => env.fail_at = 0)}

-----------------------------------------------------------------------------
(* Spec: the conversational agent with its core agent *)

Init ==
    /\ sessions = <<>>
    /\ next_session = 1
    /\ conversations = <<>>
    /\ tasks = <<>>
    /\ last = Reply("none", 0, "none", "absent")
    /\ batch = NoBatch
    /\ current_session = None

\* start_conversation(conversation_id): the record goes under the id, in place
\* of the record the id may hold; an id drawn by uuid4 is one not in the store
StartConversation ==
    \E cid \in ConversationIds :
        LET n == IF cid \in DOMAIN conversations
                 THEN conversations[cid].created_at + 1
                 ELSE 1
        IN  /\ n <= MaxConversations
            /\ conversations' =
                  (cid :> [NewConversation EXCEPT !.created_at = n])
                     @@ [c \in DOMAIN conversations \ {cid} |-> conversations[c]]
            /\ last' = [Reply("start_conversation", cid, "ok", "waiting_for_image")
                          EXCEPT !.actions = "upload_image"]
            /\ UNCHANGED <<sessions, next_session, tasks, batch, current_session>>

\* process_message with an identifier that is not in the store
ProcessMessageUnknown ==
    \E cid \in (ConversationIds \cup {UnknownId}) \ DOMAIN conversations :
        /\ last' = ChatReply(cid, "not_found", "absent")
        /\ UNCHANGED <<sessions, next_session, conversations, tasks, batch, current_session>>

\* the images sent in a conversation: one that cannot be read and one that can
ChatImages ==
    {CorruptImage, ColorfulImage}

\* the images a turn can tell apart: a conversation that holds an image tests
\* only whether one is attached
TurnImages(conv) ==
    IF conv.image_uploaded THEN {None, Some(ColorfulImage)}
    ELSE {None} \cup {Some(i) : i \in ChatImages}

\* the texts given as answers: one that names a tone and an audience, one that
\* names neither
AnswerMessages ==
    {"no change", "luxury for young women"}

\* the messages of a turn: while the questions are asked the message is an
\* answer and is stored, in the other stages only its keywords are looked at
TurnMessages(conv) ==
    IF conv.stage = "asking_questions" THEN AnswerMessages
    ELSE Messages

ProcessMessage ==
    \E cid \in DOMAIN conversations :
     \E msg \in TurnMessages(conversations[cid]) :
      \E image \in TurnImages(conversations[cid]) :
        LET conv == add_to_history(conversations[cid])
        IN  /\ conv.conversation_history < MaxHistory
            /\ route_to_upload(conv, image) => next_session <= MaxSessions
            /\ \E env \in RelevantEnvs(conv, msg, image) :
                  LET t == dispatch(cid, conv, msg, image, env)
                  IN  /\ conversations' = [conversations EXCEPT ![cid] = t.conv]
                      /\ sessions' = t.sessions
                      /\ next_session' = t.next_session
                      /\ tasks' = t.tasks
                      /\ last' = t.reply
            /\ UNCHANGED <<batch, current_session>>

status_reconcile_eager(conv) ==
    IF conv.stage = "generating"
    THEN "completed"
    ELSE conv.stage

status_reconcile_ready(conv) ==
    IF conv.stage = "generating" /\ conv.ready_for_generation
    THEN "completed"
    ELSE conv.stage

\* the stage get_conversation_status stores before it reports
status_reconcile(conv) ==
    IF conv.stage = "generating" /\ conv.generation_result # None
    THEN "completed"
    ELSE conv.stage

GetConversationStatus ==
    \E cid \in ConversationIds \cup {UnknownId} :
        /\ IF cid \in DOMAIN conversations
           THEN LET stage == status_reconcile(conversations[cid])
                IN  /\ conversations' = [conversations EXCEPT ![cid].stage = stage]
                    /\ last' = [Reply("get_conversation_status", cid, "ok", stage)
                                  EXCEPT !.qnum = conversations[cid].questions_asked,
                                         !.complete =
                                            conversations[cid].generation_result # None]
           ELSE /\ conversations' = conversations
                /\ last' = Reply("get_conversation_status", cid, "not_found", "absent")
        /\ UNCHANGED <<sessions, next_session, tasks, batch, current_session>>

\* get_conversation_history: the history, or an empty list for an id that is
\* not in the store
conversation_history(convs, cid) ==
    IF cid \notin DOMAIN convs THEN 0
    ELSE convs[cid].conversation_history

GetConversationHistory ==
    \E cid \in ConversationIds \cup {UnknownId} :
        /\ last' = [Reply("get_conversation_history", cid, "ok", "absent")
                      EXCEPT !.history = Some(conversation_history(conversations, cid))]
        /\ UNCHANGED <<sessions, next_session, conversations, tasks, batch, current_session>>

\* _generate_ads_background starts: it takes the record stored under the id and
\* calls generate_ads with its session_id, which raises or awaits the generator.
\* The event loop starts the tasks in the order asyncio.create_task made them
BackgroundStart ==
    \E i \in DOMAIN tasks :
        LET cid == tasks[i].owner
            conv == conversations[cid]
            sid == IF conv.session_id = None THEN 0 ELSE conv.session_id[1]
            k == generate_ads_begin(sessions, sid)
            taken == [tasks EXCEPT ![i].sid = sid, ![i].conv = conv.created_at]
        IN  /\ tasks[i].owner # 0
            /\ tasks[i].pc = "scheduled"
            /\ \A j \in 1..(i - 1) : tasks[j].pc # "scheduled"
            /\ IF k = "awaiting"
               THEN /\ tasks' = [taken EXCEPT ![i].pc = "awaiting", ![i].held = TRUE]
                    /\ conversations' = conversations
               ELSE /\ tasks' = [taken EXCEPT ![i].pc = "raised"]
                    /\ conversations' =
                          [conversations EXCEPT ![cid].stage = "generation_failed",
                                                ![cid].generation_error = Some(k)]
            /\ UNCHANGED <<sessions, next_session, last, batch, current_session>>

stage_after_generation_always(conv, success) ==
    "completed"

\* the stage _generate_ads_background stores when generate_ads has returned
stage_after_generation(conv, success) ==
    IF success THEN "completed" ELSE conv.stage

\* _generate_ads_background resumes: generate_ads returns, and the record the
\* task took at its start, in the store or replaced meanwhile, is written
BackgroundFinish ==
    \E i \in DOMAIN tasks, gen \in GenOutcomes :
        LET cid == tasks[i].owner
            sid == tasks[i].sid
            r == generate_ads_end(sessions, sid, tasks[i].held, gen)
            success == r.kind = "ok"
        IN  /\ tasks[i].owner # 0
            /\ tasks[i].pc = "awaiting"
            /\ sessions' = r.sessions
            /\ tasks' = [tasks EXCEPT ![i].pc =
                            IF success THEN "returned_ok" ELSE "returned_failed"]
            /\ conversations' =
                  IF conversations[cid].created_at = tasks[i].conv
                  THEN [conversations EXCEPT
                          ![cid].stage = stage_after_generation(conversations[cid], success),
                          ![cid].generation_result =
                              IF success THEN r.sessions[sid].generation_result ELSE @]
                  ELSE conversations
            /\ UNCHANGED <<next_session, last, batch, current_session>>

Next ==
    \/ StartConversation
    \/ ProcessMessageUnknown
    \/ ProcessMessage
    \/ GetConversationStatus
    \/ GetConversationHistory
    \/ BackgroundStart
    \/ BackgroundFinish

Spec ==
    Init /\ [][Next]_vars

-----------------------------------------------------------------------------
(* SpecBatch: one batch of AdGenerator._generate_ads_internal, step by step *)

\* the values of config.concurrent_generations the batch is run with
ConcurrencySettings ==
    {1, concurrent_generations}

concurrent_mode(setting) ==
    setting > 1

Pending(b) ==
    {i \in DOMAIN AdVariations : b.outcome[i] = "pending"}

\* _generate_ads_internal is entered
BatchStart ==
    \E setting \in ConcurrencySettings, client \in BOOLEAN :
        /\ batch.pc = "idle"
        /\ batch' = [NoBatch EXCEPT !.pc = "running",
                                    !.concurrent_generations = setting,
                                    !.client = client]
        /\ UNCHANGED <<sessions, next_session, conversations, tasks, last, current_session>>

\* concurrent mode: one of the gathered _generate_single_ad calls ends, in any
\* order; gather keeps what it returned or raised at its index
SingleAdGathered ==
    \E i \in Pending(batch), in \in SingleAdInputs(batch) :
        /\ batch.pc = "running"
        /\ concurrent_mode(batch.concurrent_generations)
        /\ batch' = single_ad(batch, i, in.api, in.mock_ok)
        /\ UNCHANGED <<sessions, next_session, conversations, tasks, last, current_session>>

\* sequential mode: the loop awaits the next variation and appends its ad, or
\* logs its exception
SingleAdInLoop ==
    \E in \in SingleAdInputs(batch) :
        /\ batch.pc = "running"
        /\ ~concurrent_mode(batch.concurrent_generations)
        /\ Pending(batch) # {}
        /\ LET i == CHOOSE j \in Pending(batch) : \A k \in Pending(batch) : j <= k
               b == single_ad(batch, i, in.api, in.mock_ok)
           IN  batch' = [b EXCEPT
                            !.generated_ads =
                                IF b.outcome[i] = "ok" THEN Append(@, AdVariations[i])
                                ELSE @]
        /\ UNCHANGED <<sessions, next_session, conversations, tasks, last, current_session>>

\* every variation has ended: the exceptions are filtered out in concurrent
\* mode, and the result is built and returned
BatchReturn ==
    /\ batch.pc = "running"
    /\ Pending(batch) = {}
    /\ LET generated_ads ==
              IF concurrent_mode(batch.concurrent_generations)
              THEN valid_ads([i \in DOMAIN AdVariations |-> batch.outcome[i] = "ok"], 1)
              ELSE batch.generated_ads
       IN  batch' = [batch EXCEPT !.pc = "done",
                                  !.generated_ads = generated_ads,
                                  !.result = Some(AdGenerationResult(generated_ads))]
    /\ UNCHANGED <<sessions, next_session, conversations, tasks, last, current_session>>

\* the caller drops the result; the generator is free for the next batch
BatchForget ==
    /\ batch.pc = "done"
    /\ batch' = NoBatch
    /\ UNCHANGED <<sessions, next_session, conversations, tasks, last, current_session>>

NextBatch ==
    \/ BatchStart
    \/ SingleAdGathered
    \/ SingleAdInLoop
    \/ BatchReturn
    \/ BatchForget

SpecBatch ==
    Init /\ [][NextBatch]_vars

-----------------------------------------------------------------------------
(* Properties of the core agent, checked under SpecAgent *)

\* a call of the core agent on session sid answered in this step
AgentCall(op, sid) ==
    /\ last' # last
    /\ last'.op = op
    /\ last'.id = sid
    /\ Len(tasks') >= Len(tasks)

\* C1: a call of upload_image on a session whose stage is not "upload", of
\* submit_answers on one whose stage is not "questions", or of generate_ads on
\* one whose stage is not "generation", fails with the invalid-state error and
\* leaves the session record, and every other session, as it was.
C1_StageGate ==
    [][\A sid \in DOMAIN sessions :
          LET gated ==
                \/ AgentCall("upload_image", sid) /\ sessions[sid].stage # "upload"
                \/ AgentCall("submit_answers", sid) /\ sessions[sid].stage # "questions"
                \/ AgentCall("generate_ads", sid) /\ sessions[sid].stage # "generation"
          IN  gated => /\ last'.kind = "invalid_state"
                       /\ sessions' = sessions
                       /\ tasks' = tasks]_vars

\* C1: generate_ads was called on a session that holds an analysis and is
\* still waiting for its answers, and was refused.
C1_Witness ==
    /\ last.op = "generate_ads"
    /\ last.kind = "invalid_state"
    /\ last.id \in DOMAIN sessions
    /\ sessions[last.id].stage = "questions"
    /\ sessions[last.id].image_analysis # None

-----------------------------------------------------------------------------
(* Properties of the conversational agent, checked under Spec *)

\* process_message ran on conversation cid in this step
TurnOn(cid) ==
    /\ cid \in DOMAIN conversations
    /\ conversations'[cid].conversation_history
          > conversations[cid].conversation_history

\* get_conversation_status answered for conversation cid in this step
PollOn(cid) ==
    /\ last' # last
    /\ last'.op = "get_conversation_status"
    /\ last'.id = cid

\* every collaborator works
HealthyEnv ==
    [io_ok |-> TRUE, qe_ok |-> TRUE, cls_ok |-> TRUE, fail_at |-> 0]

\* start_conversation put a new record under the id of conversation cid in
\* this step: the record that was stored is no longer in the store
Replaced(cid) ==
    /\ cid \in DOMAIN conversations
    /\ conversations'[cid].created_at # conversations[cid].created_at

\* task i is the background task of the record stored under cid: a turn on
\* that record scheduled it
TaskOfRecord(tsk, convs, i, cid) ==
    /\ tsk[i].owner = cid
    /\ cid \in DOMAIN convs
    /\ tsk[i].by = convs[cid].created_at

\* the background task of conversation cid is in one of the given positions
TaskAt(cid, pcs) ==
    \E i \in DOMAIN tasks :
        TaskOfRecord(tasks, conversations, i, cid) /\ tasks[i].pc \in pcs

Terminated ==
    {"returned_ok", "returned_failed", "raised"}

\* C2: the happy path. start_conversation answers waiting_for_image; a
\* successful upload answers asking_questions with question 1 of type
\* target_audience; the accepted answers lead to question 2 (brand_tone),
\* question 3 (key_message) and then ready_for_generation; "yes" answers
\* generating with generation_started; after the background task succeeded a
\* status poll reports completed, the result holding 0 to 4 ads of catalog types.
C2_HappyPath ==
    [][\A cid \in ConversationIds :
          /\ cid \notin DOMAIN conversations /\ cid \in DOMAIN conversations' =>
                /\ last'.op = "start_conversation"
                /\ last'.stage = "waiting_for_image"
          /\ cid \in DOMAIN conversations =>
                LET conv == conversations[cid]
                    yes == dispatch(cid, add_to_history(conv), "yes", None, HealthyEnv)
                    upload == dispatch(cid, add_to_history(conv), "Uploaded image",
                                       Some(ColorfulImage), HealthyEnv)
                IN  /\ ~conv.image_uploaded => upload.conv.image_uploaded
                    /\ TurnOn(cid) /\ ~conv.image_uploaded
                          /\ conversations'[cid].image_uploaded =>
                          /\ last'.stage = "asking_questions"
                          /\ conversations'[cid].stage = "asking_questions"
                          /\ last'.qnum = 1 /\ conversations'[cid].questions_asked = 1
                          /\ last'.qtype = "target_audience"
                    /\ TurnOn(cid) /\ conv.image_uploaded
                          /\ conv.stage = "asking_questions" /\ last'.kind = "ok" =>
                          CASE conv.questions_asked = 1 ->
                                  /\ last'.stage = "asking_questions"
                                  /\ last'.qnum = 2 /\ last'.qtype = "brand_tone"
                            [] conv.questions_asked = 2 ->
                                  /\ last'.stage = "asking_questions"
                                  /\ last'.qnum = 3 /\ last'.qtype = "key_message"
                            [] OTHER ->
                                  /\ last'.stage = "ready_for_generation"
                                  /\ conversations'[cid].stage = "ready_for_generation"
                    /\ conv.stage = "ready_for_generation" =>
                          /\ yes.reply.stage = "generating"
                          /\ yes.reply.started
                          /\ yes.conv.stage = "generating"
                    /\ TurnOn(cid) /\ last'.started =>
                          /\ conv.stage = "ready_for_generation"
                          /\ last'.stage = "generating"
                          /\ conversations'[cid].stage = "generating"
                    /\ TaskAt(cid, {"returned_ok"}) =>
                          /\ status_reconcile(conv) = "completed"
                          /\ conv.generation_result # None
                          /\ Len(conv.generation_result[1].ads) \in 0..4
                          /\ \A k \in DOMAIN conv.generation_result[1].ads :
                                conv.generation_result[1].ads[k] \in AdVariationType
                    /\ PollOn(cid) /\ TaskAt(cid, {"returned_ok"}) =>
                          /\ last'.stage = "completed"
                          /\ last'.complete]_vars

\* C2: the whole path was walked: a status poll reported completed after the
\* background task succeeded with four ads, every answer having been stored.
C2_Witness ==
    /\ last.op = "get_conversation_status"
    /\ last.stage = "completed"
    /\ last.id \in DOMAIN conversations
    /\ TaskAt(last.id, {"returned_ok"})
    /\ conversations[last.id].questions_asked = 3
    /\ conversations[last.id].conversation_history = 11
    /\ Len(conversations[last.id].generation_result[1].ads) = 4

\* C3: a conversation whose stored stage is generating leaves it, while its
\* record is kept, only in a step of a background task started under its
\* identifier, to completed when generate_ads succeeded and to
\* generation_failed when it raised: no process_message and no
\* get_conversation_status step changes the stage.
C3_LeavesGeneratingByTaskOnly ==
    [][\A cid \in DOMAIN conversations :
          conversations[cid].stage = "generating" /\ ~Replaced(cid) =>
             /\ TurnOn(cid) \/ PollOn(cid) =>
                   conversations'[cid].stage = "generating"
             /\ conversations'[cid].stage # "generating" =>
                   /\ last' = last
                   /\ \E i \in DOMAIN tasks :
                         /\ tasks[i].owner = cid
                         /\ tasks[i].pc \in {"scheduled", "awaiting"}
                         /\ \/ /\ tasks'[i].pc = "returned_ok"
                               /\ conversations'[cid].stage = "completed"
                            \/ /\ tasks'[i].pc = "raised"
                               /\ conversations'[cid].stage = "generation_failed"]_vars

\* C3: a message and a poll both arrived while the stage was generating, and
\* the background task then finished and stored completed.
C3_Witness ==
    \E cid \in DOMAIN conversations :
        /\ conversations[cid].stage = "completed"
        /\ TaskAt(cid, {"returned_ok"})
        /\ conversations[cid].conversation_history = 13
        /\ last.op = "get_conversation_status"
        /\ last.stage = "generating"

\* C4: once the background task of a conversation has terminated, a status
\* poll reports completed if generate_ads succeeded and generation_failed if
\* the task raised, and in no case still generating.
C4_TerminatedTaskReported ==
    \A i \in DOMAIN tasks :
        TaskOfRecord(tasks, conversations, i, tasks[i].owner)
           /\ tasks[i].pc \in Terminated =>
            LET reported == status_reconcile(conversations[tasks[i].owner])
            IN  /\ tasks[i].pc = "returned_ok" => reported = "completed"
                /\ tasks[i].pc = "raised" => reported = "generation_failed"
                /\ reported # "generating"

\* C5: a conversation whose stored stage is generating is linked to a session
\* that accepted the three answers: its stage is "generation" or "completed"
\* and its responses are stored.
C5_GeneratingHasAnswers ==
    \A cid \in DOMAIN conversations :
        conversations[cid].stage = "generating" =>
            /\ conversations[cid].session_id # None
            /\ conversations[cid].session_id[1] \in DOMAIN sessions
            /\ LET session == sessions[conversations[cid].session_id[1]]
               IN  /\ session.stage \in {"generation", "completed"}
                   /\ Len(session.responses) = max_questions

\* C6: when the batch of a conversation's background task ended with no ad at
\* all, the conversation's stage is generation_failed, and never completed
\* with an empty list of ads.
C6_EmptyBatchFails ==
    \A i \in DOMAIN tasks :
        LET cid == tasks[i].owner
            session == sessions[tasks[i].sid]
        IN  /\ cid # 0
            /\ TaskOfRecord(tasks, conversations, i, cid)
            /\ tasks[i].pc \in Terminated
            /\ tasks[i].sid \in DOMAIN sessions
            /\ session.generation_result # None
            /\ session.generation_result[1].ads = <<>>
            => /\ conversations[cid].stage = "generation_failed"
               /\ conversations[cid].generation_error # None

\* C7: a process_message turn on a conversation whose stored stage is
\* generation_failed stores ready_for_generation and answers with that stage.
C7_FailedOffersRetry ==
    [][\A cid \in DOMAIN conversations :
          conversations[cid].stage = "generation_failed" /\ TurnOn(cid) =>
             /\ conversations'[cid].stage = "ready_for_generation"
             /\ last'.stage = "ready_for_generation"]_vars

\* what one turn with the given input would store and start
TurnResult(cid, msg, image, env) ==
    LET t == dispatch(cid, add_to_history(conversations[cid]), msg, image, env)
    IN  <<[t.conv EXCEPT !.conversation_history = 0], t.sessions, t.tasks>>

\* C8: a conversation whose stage is not completed is not stuck: its
\* background task is still to terminate, or a poll or some turn changes what
\* is stored (a turn that changes nothing but the history changes nothing for
\* the turns after it either).
C8_NeverStuck ==
    \A cid \in DOMAIN conversations :
        conversations[cid].stage # "completed" =>
            \/ TaskAt(cid, {"scheduled", "awaiting"})
            \/ status_reconcile(conversations[cid]) # conversations[cid].stage
            \/ \E msg \in Messages, image \in {None} \cup {Some(i) : i \in Images} :
                  \E env \in RelevantEnvs(conversations[cid], msg, image) :
                     TurnResult(cid, msg, image, env)
                        # <<[conversations[cid] EXCEPT !.conversation_history = 0],
                            sessions, tasks>>

\* C9: after an image upload turn that failed, the stored stage of the
\* conversation is waiting_for_image.
C9_FailedUploadWaits ==
    [][\A cid \in DOMAIN conversations :
          /\ TurnOn(cid)
          /\ next_session' # next_session
          /\ ~conversations'[cid].image_uploaded
          => conversations'[cid].stage = "waiting_for_image"]_vars

-----------------------------------------------------------------------------
(* Properties of the batch, checked under SpecBatch *)

Raised(b) ==
    {i \in DOMAIN AdVariations : b.outcome[i] = "raised"}

\* the variations that returned an ad, in the order of the catalog
RECURSIVE Succeeded(_, _)
Succeeded(b, i) ==
    IF i > Len(AdVariations) THEN <<>>
    ELSE (IF b.outcome[i] = "ok" THEN <<AdVariations[i]>> ELSE <<>>)
            \o Succeeded(b, i + 1)

\* C10: a finished batch in which exactly k of the four variations failed,
\* 1 <= k <= 3, in either mode, holds exactly 4 - k ads, one for each variation
\* that succeeded, and reports success with no error message; a batch reports
\* success exactly when at least one variation succeeded.
C10_PartialBatch ==
    batch.pc = "done" =>
        LET k == Cardinality(Raised(batch))
            result == batch.result[1]
        IN  /\ k \in 1..3 =>
                /\ Len(result.ads) = Len(AdVariations) - k
                /\ result.ads = Succeeded(batch, 1)
                /\ result.success
                /\ result.error_message = None
            /\ result.success <=> k < Len(AdVariations)

\* C10: a sequential batch ended in which the second and the fourth variation
\* raised.
C10_Witness ==
    /\ batch.pc = "done"
    /\ ~concurrent_mode(batch.concurrent_generations)
    /\ Raised(batch) = {2, 4}
    /\ batch.result[1].ads = <<"lifestyle", "benefit_focused">>

\* C11: a finished batch in which all four variations failed, in either mode,
\* holds no ad, reports success = false and carries a non-empty error message.
C11_TotalFailure ==
    batch.pc = "done" /\ Raised(batch) = DOMAIN AdVariations =>
        LET result == batch.result[1]
        IN  /\ result.ads = <<>>
            /\ ~result.success
            /\ result.error_message # None
            /\ Len(result.error_message[1]) > 0

\* C11: a concurrent batch ended in which every variation raised.
C11_Witness ==
    /\ batch.pc = "done"
    /\ concurrent_mode(batch.concurrent_generations)
    /\ Raised(batch) = DOMAIN AdVariations
    /\ batch.result[1].success = FALSE

ConversationOps ==
    {"process_message", "get_conversation_status", "get_conversation_history"}

\* C12: a conversation operation called with an identifier that is not in
\* the store answers with the not-found error and leaves the conversation
\* store and the session store unchanged.
C12_UnknownIdNotFound ==
    [][\A cid \in (ConversationIds \cup {UnknownId}) \ DOMAIN conversations :
          last' # last /\ last'.id = cid /\ last'.op \in ConversationOps =>
             /\ last'.kind = "not_found"
             /\ conversations' = conversations
             /\ sessions' = sessions]_vars

\* C13: in every step that keeps the record of a conversation, its question
\* counter does not decrease and is at most 3; a message turn or a status
\* poll takes the conversation out of asking_questions only to
\* ready_for_generation and only as a turn taken while the counter is 3, and
\* every answer accepted while the counter is 3 makes that move.
C13_QuestionCounter ==
    [][\A cid \in DOMAIN conversations :
          LET before == conversations[cid]
              after == conversations'[cid]
          IN  ~Replaced(cid) =>
              /\ after.questions_asked >= before.questions_asked
              /\ after.questions_asked <= 3
              /\ (TurnOn(cid) \/ PollOn(cid))
                    /\ before.stage = "asking_questions"
                    /\ after.stage # "asking_questions" =>
                       /\ after.stage = "ready_for_generation"
                       /\ before.questions_asked = 3
                       /\ TurnOn(cid)
              /\ before.stage = "asking_questions" /\ before.questions_asked = 3
                    /\ TurnOn(cid) /\ last'.kind = "ok" =>
                       after.stage = "ready_for_generation"]_vars

\* C13: the third answer was accepted and the conversation is ready.
C13_Witness ==
    \E cid \in DOMAIN conversations :
        /\ conversations[cid].stage = "ready_for_generation"
        /\ conversations[cid].questions_asked = 3
        /\ conversations[cid].collected_info.key_message # None
        /\ last.op = "process_message"
        /\ last.stage = "ready_for_generation"
        /\ tasks = <<>>

\* the position of a session stage on upload -> questions -> generation -> completed
StageRank(stage) ==
    CASE stage = "upload" -> 0
      [] stage = "questions" -> 1
      [] stage = "generation" -> 2
      [] stage = "completed" -> 3

\* C14: in every step (a call of upload_image, submit_answers, generate_ads or
\* get_session_status, returning normally or failing) the stage of each session
\* stays where it is or moves to the next stage of
\* upload -> questions -> generation -> completed; it never moves backward
\* and never skips a stage.
C14_StageForward ==
    [][last'.op \in {"upload_image", "submit_answers", "generate_ads",
                     "get_session_status"} =>
          /\ DOMAIN sessions' = DOMAIN sessions
          /\ \A sid \in DOMAIN sessions :
                \/ StageRank(sessions'[sid].stage) = StageRank(sessions[sid].stage)
                \/ StageRank(sessions'[sid].stage)
                      = StageRank(sessions[sid].stage) + 1]_vars

\* C14: a session went through every stage: generate_ads returned and the
\* session, holding analysis, answers and result, is completed.
C14_Witness ==
    \E sid \in DOMAIN sessions :
        /\ sessions[sid].stage = "completed"
        /\ sessions[sid].image_analysis # None
        /\ sessions[sid].responses # <<>>
        /\ sessions[sid].generation_result # None
        /\ last.op = "generate_ads"
        /\ last.id = sid

\* C15: every session in stage "completed" holds a generation result with at
\* least one ad, and a generate_ads call whose four variations all failed
\* reports failure and leaves the session in "generation".
C15_CompletedHasAd ==
    \A sid \in DOMAIN sessions :
        sessions[sid].stage = "completed" =>
            /\ sessions[sid].generation_result # None
            /\ Len(sessions[sid].generation_result[1].ads) >= 1

\* C16: in every reachable state, upload_image called on a session in stage
\* "upload" with an image the analyzer rejects reports failure and returns
\* the session store as it was: the stage is "upload", image_analysis is
\* absent, and no image path and no question list is stored.
C16_AnalyzerFailure ==
    \A sid \in DOMAIN sessions, img \in Images, qe_ok \in BOOLEAN :
        sessions[sid].stage = "upload" /\ analyze_image(img) = None =>
            LET r == upload_image(sessions, sid, img, qe_ok)
            IN  /\ r.kind = "failed"
                /\ r.sessions = sessions
                /\ r.sessions[sid].stage = "upload"
                /\ r.sessions[sid].image_analysis = None
                /\ r.sessions[sid].product_image_path = None
                /\ r.sessions[sid].questions = <<>>

\* C16: upload_image just reported failure on a session that is still in
\* stage "upload", which only the analyzer's failure produces.
C16_Witness ==
    \E sid \in DOMAIN sessions :
        /\ last.op = "upload_image"
        /\ last.id = sid
        /\ last.kind = "failed"
        /\ sessions[sid] = NewSession

\* C17: in every reachable state, submit_answers on a session in stage
\* "questions" either processes every answer, stores one response per answer
\* and moves the session to "generation", or, when the processing of some
\* answer raises, reports failure and leaves the stage and the stored
\* responses as they were: no prefix of the answers is stored.
C17_AllOrNothing ==
    \A sid \in DOMAIN sessions, answers \in AnswerLists :
        sessions[sid].stage = "questions" =>
            \A fail_at \in 0..Len(answers) :
                LET r == submit_answers(sessions, sid, answers, fail_at)
                IN  IF fail_at = 0
                    THEN /\ r.kind = "ok"
                         /\ r.sessions[sid].stage = "generation"
                         /\ Len(r.sessions[sid].responses) = Len(answers)
                         /\ \A i \in DOMAIN answers :
                               r.sessions[sid].responses[i].response
                                  = answers[i].response
                    ELSE /\ r.kind = "failed"
                         /\ r.sessions[sid].stage = sessions[sid].stage
                         /\ r.sessions[sid].responses = sessions[sid].responses
                         /\ r.sessions = sessions

\* C17: submit_answers just reported failure on a session that is still in
\* stage "questions" with no response stored.
C17_Witness ==
    \E sid \in DOMAIN sessions :
        /\ last.op = "submit_answers"
        /\ last.id = sid
        /\ last.kind = "failed"
        /\ sessions[sid].stage = "questions"
        /\ sessions[sid].responses = <<>>

\* the positions of a background task that has not terminated
Running ==
    {"scheduled", "awaiting"}

\* C18: the turn that answers generation_started = true leaves the stored
\* stage "generating" and the background task of the conversation not yet
\* terminated; and while that task has not terminated, every message turn
\* and every status poll on the conversation reports stage "generating".
C18_GenerationNotAwaited ==
    [][\A cid \in DOMAIN conversations :
          /\ TurnOn(cid) /\ last'.started =>
                /\ conversations'[cid].stage = "generating"
                /\ \E i \in DOMAIN tasks' :
                      /\ TaskOfRecord(tasks', conversations', i, cid)
                      /\ tasks'[i].pc \in Running
                /\ ~\E i \in DOMAIN tasks' :
                      /\ TaskOfRecord(tasks', conversations', i, cid)
                      /\ tasks'[i].pc \in Terminated
          /\ TaskAt(cid, Running) /\ (TurnOn(cid) \/ PollOn(cid)) =>
                last'.stage = "generating"]_vars

\* the reply kinds that stand for a ValueError raised by the core agent
RaisedKinds ==
    {"not_found", "invalid_state", "missing_data"}

\* C19: no public operation raises: upload_image, submit_answers,
\* generate_ads and get_session_status of the core agent, like
\* process_message and get_conversation_status, answer every call in every
\* state with a returned result.
C19_NothingRaises ==
    /\ last.op \in {"upload_image", "submit_answers", "generate_ads",
                    "get_session_status"} => last.kind \notin RaisedKinds
    /\ last.op \in {"process_message", "get_conversation_status"} =>
          last.kind \in {"ok", "error", "not_found"}

\* C20: the status queries only read. In every reachable state
\* get_conversation_status stores the stage the record already has, a step in
\* which it answered leaves the conversation store and the session store as
\* they were, and get_session_status returns the session store unchanged.
C20_StatusReadOnly ==
    [][/\ \A cid \in DOMAIN conversations' :
             status_reconcile(conversations'[cid]) = conversations'[cid].stage
       /\ last' # last /\ last'.op = "get_conversation_status" =>
             /\ conversations' = conversations
             /\ sessions' = sessions
       /\ \A sid \in DOMAIN sessions' :
             get_session_status(sessions', sid) = Result(sessions', "ok")]_vars

\* C20: a status poll answered on a conversation whose generation is under
\* way, its session waiting in stage "generation".
C20_Witness ==
    \E cid \in DOMAIN conversations :
        /\ last.op = "get_conversation_status"
        /\ last.id = cid
        /\ last.stage = conversations[cid].stage
        /\ conversations[cid].stage = "generating"
        /\ conversations[cid].session_id # None
        /\ conversations[cid].session_id[1] \in DOMAIN sessions
        /\ sessions[conversations[cid].session_id[1]].stage = "generation"

\* C21: in every reachable state, cleanup_session on an identifier in the
\* store removes exactly that record and returns true, on an absent
\* identifier it changes nothing and returns false, a second call after any
\* call changes nothing and returns false, and every other record is left as
\* it was; reset_session leaves no current session, and a second reset leaves
\* the state the first one gave.
C21_CleanupIdempotent ==
    /\ \A sid \in 1..(MaxWrapperSessions + 1) :
          LET once == cleanup_session(sessions, sid)
              twice == cleanup_session(once.sessions, sid)
          IN  /\ sid \in DOMAIN sessions =>
                    /\ once.kind = "true"
                    /\ DOMAIN once.sessions = DOMAIN sessions \ {sid}
              /\ sid \notin DOMAIN sessions => once = Result(sessions, "false")
              /\ \A other \in DOMAIN sessions \ {sid} :
                    /\ other \in DOMAIN once.sessions
                    /\ once.sessions[other] = sessions[other]
              /\ twice = Result(once.sessions, "false")
    /\ LET once == reset_session(sessions, current_session)
           twice == reset_session(once.sessions, once.current_session)
       IN  /\ once.current_session = None
           /\ twice = once
           /\ \A other \in DOMAIN sessions :
                 current_session # Some(other) =>
                    /\ other \in DOMAIN once.sessions
                    /\ once.sessions[other] = sessions[other]

\* C21: cleanup_session just returned false for an identifier that had been
\* issued and removed before, while another session, completed by generate_ads
\* of the wrapper, is still stored with its result.
C21_Witness ==
    /\ last.op = "cleanup_session"
    /\ last.kind = "false"
    /\ last.id < next_session
    /\ last.id \notin DOMAIN sessions
    /\ \E other \in DOMAIN sessions :
          /\ sessions[other].stage = "completed"
          /\ sessions[other].generation_result # None

\* the stored stages before asking_questions has begun
BeforeQuestions ==
    {"greeting", "waiting_for_image", "analyzing_image"}

\* C22: in every reachable state and for every message that carries an
\* image: while no upload has succeeded, which is the case in greeting,
\* waiting_for_image and analyzing_image, the turn is the image-upload
\* transition, whatever the stage, and starts a session; once asking_questions
\* has begun the turn is the one the same message takes without an image: it
\* starts no session and keeps the stored analysis.
C22_ImageRouting ==
    \A cid \in DOMAIN conversations :
        /\ conversations[cid].stage \in BeforeQuestions
              => ~conversations[cid].image_uploaded
        /\ ~conversations[cid].image_uploaded
              => conversations[cid].stage \in BeforeQuestions \cup {"generation_failed"}
        /\ \A msg \in Messages, img \in Images :
              LET conv == add_to_history(conversations[cid])
              IN  \A env \in RelevantEnvs(conv, msg, Some(img)) :
                     LET t == dispatch(cid, conv, msg, Some(img), env)
                     IN  IF ~conv.image_uploaded
                         THEN /\ t = handle_image_upload(cid, conv, img, env)
                              /\ t.next_session = next_session + 1
                              /\ t.conv.session_id = Some(next_session)
                              /\ next_session \in DOMAIN t.sessions
                         ELSE /\ t = dispatch(cid, conv, msg, None, env)
                              /\ t.next_session = next_session
                              /\ DOMAIN t.sessions = DOMAIN sessions
                              /\ t.conv.session_id = conv.session_id
                              /\ t.conv.image_analysis = conv.image_analysis

\* C22: a second image, sent while the stored stage was analyzing_image after a
\* failed upload, was taken by the upload transition and analysed.
C22_Witness ==
    \E cid \in DOMAIN conversations :
        /\ conversations[cid].session_id = Some(2)
        /\ conversations[cid].image_uploaded
        /\ conversations[cid].stage = "asking_questions"
        /\ conversations[cid].questions_asked = 1
        /\ last.op = "process_message"
        /\ last.stage = "asking_questions"

\* the variation types of a list of ads
TypesOf(ads) ==
    {ads[k] : k \in DOMAIN ads}

\* the cases in which the image API gives no image
ApiFailures ==
    {"no_client", "no_image_data", "raises"}

\* C23: a variation whose image API call found no client, raised, or got a
\* response without image data does not end with the API's failure: the call
\* renders the placeholder, and once the placeholder is rendered the call
\* returns its reference, the variation counts as generated and is among the
\* ads of the finished batch. Such a variation raises only when rendering the
\* placeholder itself fails.
C23_PlaceholderFallback ==
    \A i \in DOMAIN AdVariations :
        batch.api[i] \in ApiFailures =>
            /\ batch.mock[i] \in {"rendered", "failed"}
            /\ batch.mock[i] = "rendered" =>
                  /\ batch.image[i] = "mock"
                  /\ batch.outcome[i] = "ok"
                  /\ batch.pc = "done" =>
                        AdVariations[i] \in TypesOf(batch.result[1].ads)
            /\ batch.outcome[i] = "raised" => batch.mock[i] = "failed"

\* C23: a batch with a client ended in which the API raised for one variation,
\* returned no image data for another and an image for a third, and the ads
\* of the first two hold placeholders.
C23_Witness ==
    /\ batch.pc = "done"
    /\ batch.client
    /\ \E i, j, k \in DOMAIN AdVariations :
          /\ batch.api[i] = "raises" /\ batch.image[i] = "mock"
          /\ batch.api[j] = "no_image_data" /\ batch.image[j] = "mock"
          /\ batch.api[k] = "image" /\ batch.image[k] = "generated"
          /\ {AdVariations[i], AdVariations[j], AdVariations[k]}
                \subseteq TypesOf(batch.result[1].ads)

\* C24: in a finished batch, a variation whose image API call raised (network
\* error, timeout) or returned a response without image data is not among
\* the ads, and the batch reports failure only when all four are excluded.
C24_ApiFailureExcluded ==
    batch.pc = "done" =>
        /\ \A i \in DOMAIN AdVariations :
              batch.api[i] \in {"raises", "no_image_data"} =>
                 AdVariations[i] \notin TypesOf(batch.result[1].ads)
        /\ ~batch.result[1].success => batch.result[1].ads = <<>>

\* C25: in every reachable state, a message that contains "no", "modify" or
\* "change", sent to a conversation in ready_for_generation, leaves the stored
\* stage ready_for_generation, is answered by the modification sub-flow,
\* schedules no background task and leaves the sessions as they were.
C25_NegativeKeepsReady ==
    \A cid \in DOMAIN conversations, msg \in Messages :
        conversations[cid].stage = "ready_for_generation" /\ is_negative(msg) =>
            LET conv == add_to_history(conversations[cid])
            IN  \A env \in RelevantEnvs(conv, msg, None) :
                   LET t == dispatch(cid, conv, msg, None, env)
                   IN  /\ t.conv.stage = "ready_for_generation"
                       /\ t.reply.stage = "ready_for_generation"
                       /\ t.reply.actions = "modify"
                       /\ t.tasks = tasks
                       /\ t.sessions = sessions

\* C26: a conversation whose stored stage is completed stays completed in every
\* step that keeps its record, and keeps its result; every message turn on it,
\* with or without an image, answers completed with the ads of the stored
\* result, and every status poll on it reports completed.
C26_CompletedAbsorbing ==
    [][\A cid \in DOMAIN conversations :
          conversations[cid].stage = "completed" /\ ~Replaced(cid) =>
             /\ conversations'[cid].stage = "completed"
             /\ conversations'[cid].generation_result
                   = conversations[cid].generation_result
             /\ TurnOn(cid) =>
                   /\ last'.kind = "ok"
                   /\ last'.stage = "completed"
                   /\ last'.ads = Some(conversations[cid].generation_result[1].ads)
             /\ PollOn(cid) => last'.stage = "completed" /\ last'.complete]_vars

\* C27: whenever start_conversation or process_message answers with a stage,
\* that stage is the one stored in the conversation record when the call
\* returns.
C27_ReportedStageIsStored ==
    [][\A cid \in DOMAIN conversations' :
          (\/ TurnOn(cid)
           \/ last' # last /\ last'.op = "start_conversation" /\ last'.id = cid)
          /\ last'.stage # "absent" =>
             last'.stage = conversations'[cid].stage]_vars

\* the question type that belongs to a value of the question counter
TypeAt(n) ==
    CASE n = 1 -> "target_audience"
      [] n = 2 -> "brand_tone"
      [] n = 3 -> "key_message"

\* the collected-information field of a question type
Collected(conv, type) ==
    CASE type = "target_audience" -> conv.collected_info.target_audience
      [] type = "brand_tone" -> conv.collected_info.brand_tone
      [] type = "key_message" -> conv.collected_info.key_message

\* C28: after every step, a conversation in asking_questions has a pending
\* question whose type is the one of its counter (1 target_audience,
\* 2 brand_tone, 3 key_message) and holds exactly the answers to the
\* questions before it; the turn that advances the counter from n, or leaves
\* asking_questions, has stored the answer in the field of question n and
\* changed no other field; and a conversation in ready_for_generation holds
\* all three of target_audience, brand_tone and key_message.
C28_TypeByCounter ==
    [][\A cid \in DOMAIN conversations' :
          LET after == conversations'[cid]
          IN  /\ after.stage = "asking_questions" =>
                    /\ after.questions_asked \in 1..3
                    /\ after.current_question # None
                    /\ after.current_question[1].type = TypeAt(after.questions_asked)
                    /\ \A n \in 1..3 :
                          Collected(after, TypeAt(n)) # None
                             <=> n < after.questions_asked
              /\ after.stage = "ready_for_generation" =>
                    \A n \in 1..3 : Collected(after, TypeAt(n)) # None
              /\ cid \in DOMAIN conversations
                    /\ TurnOn(cid)
                    /\ conversations[cid].stage = "asking_questions"
                    /\ (\/ after.questions_asked > conversations[cid].questions_asked
                        \/ after.stage # "asking_questions") =>
                       LET before == conversations[cid]
                           asked == before.questions_asked
                       IN  /\ Collected(before, TypeAt(asked)) = None
                           /\ Collected(after, TypeAt(asked)) # None
                           /\ \A n \in 1..3 \ {asked} :
                                 Collected(after, TypeAt(n))
                                    = Collected(before, TypeAt(n))]_vars

\* C28: the third question is pending: it asks for the key message, and the
\* audience and the tone are stored.
C28_Witness ==
    \E cid \in DOMAIN conversations :
        /\ conversations[cid].stage = "asking_questions"
        /\ conversations[cid].questions_asked = 3
        /\ conversations[cid].current_question[1].type = "key_message"
        /\ conversations[cid].collected_info.target_audience # None
        /\ conversations[cid].collected_info.brand_tone # None
        /\ conversations[cid].collected_info.key_message = None

\* the variations of batch b that have ended
Ended(b) ==
    DOMAIN AdVariations \ Pending(b)

\* the ads of the variations among the first n that returned, in catalog order
RECURSIVE ReturnedUpTo(_, _)
ReturnedUpTo(b, n) ==
    IF n = 0 THEN <<>>
    ELSE ReturnedUpTo(b, n - 1)
            \o (IF b.outcome[n] = "ok" THEN <<AdVariations[n]>> ELSE <<>>)

\* C29: the result of a finished batch is a function of the per-variation
\* outcomes alone, the same in sequential and in concurrent mode: its ads are
\* the variations that returned, in the catalog order lifestyle, product_hero,
\* benefit_focused, social_proof, and its success flag says that there is one.
\* In sequential mode the variations are attempted in catalog order, the ads
\* kept so far are those of the attempted variations that returned, and a
\* batch ends only when all four were attempted, whichever of them raised.
C29_ModesAgree ==
    /\ batch.pc = "done" =>
          /\ Ended(batch) = DOMAIN AdVariations
          /\ batch.result[1].ads = ReturnedUpTo(batch, Len(AdVariations))
          /\ batch.result[1].success
                <=> \E i \in DOMAIN AdVariations : batch.outcome[i] = "ok"
    /\ batch.pc = "running" /\ ~concurrent_mode(batch.concurrent_generations) =>
          /\ Ended(batch) = 1..Cardinality(Ended(batch))
          /\ batch.generated_ads = ReturnedUpTo(batch, Cardinality(Ended(batch)))

\* C29: a concurrent batch ended with the outcomes of C10's sequential one
\* (the second and the fourth variation raised) and holds the same ads.
C29_Witness ==
    /\ batch.pc = "done"
    /\ concurrent_mode(batch.concurrent_generations)
    /\ Raised(batch) = {2, 4}
    /\ batch.result[1].ads = <<"lifestyle", "benefit_focused">>
    /\ batch.result[1].success

\* the categories with bespoke text for every question index, by their values
\* in ProductCategory
BespokeCategories ==
    {"fashion", "electronics", "food_beverage"}

\* C30: the pending question of a conversation whose analysed image has a
\* category with bespoke text is phrased with that category's text, and the
\* generic phrasing is used only for the other categories.
C30_BespokePhrasing ==
    \A cid \in DOMAIN conversations :
        conversations[cid].stage = "asking_questions" =>
            (conversations[cid].current_question[1].question = "generic"
                <=> conversations[cid].image_analysis[1].category
                       \notin BespokeCategories)

\* C31: once a conversation has a session, no step that keeps its record
\* gives it another: its session_id stays the same and no further session is
\* started on its behalf.
C31_OneSession ==
    [][\A cid \in DOMAIN conversations :
          conversations[cid].session_id # None /\ ~Replaced(cid) =>
             /\ conversations'[cid].session_id = conversations[cid].session_id
             /\ next_session' = next_session
             /\ DOMAIN sessions' = DOMAIN sessions]_vars

\* C32: in every reachable state, whenever upload_image on a session in stage
\* "upload" reports failure, because the analyzer fails or because the
\* question engine fails after the analysis, the session store is as it was:
\* the session is still in stage "upload" and holds no image analysis.
C32_FailedUploadUnchanged ==
    \A sid \in DOMAIN sessions, img \in Images, qe_ok \in BOOLEAN :
        LET r == upload_image(sessions, sid, img, qe_ok)
        IN  sessions[sid].stage = "upload" /\ r.kind = "failed" =>
               /\ r.sessions = sessions
               /\ r.sessions[sid].stage = "upload"
               /\ r.sessions[sid].image_analysis = None

\* the background tasks scheduled so far by the record stored under cid
TasksOf(tsk, convs, cid) ==
    {i \in DOMAIN tsk : TaskOfRecord(tsk, convs, i, cid)}

\* C33: in every step that keeps the record of a conversation, under any
\* interleaving of turns, polls and background-task steps, the record has at
\* most one background task;
\* a task is scheduled only by a turn in ready_for_generation of a
\* conversation that has none, and a task calls generate_ads once: it never
\* goes back to its start.
C33_OneBackgroundTask ==
    [][\A cid \in DOMAIN conversations :
          ~Replaced(cid) =>
          /\ Cardinality(TasksOf(tasks', conversations', cid)) <= 1
          /\ TasksOf(tasks', conversations', cid) # TasksOf(tasks, conversations, cid) =>
                /\ TasksOf(tasks, conversations, cid) = {}
                /\ conversations[cid].stage = "ready_for_generation"
                /\ TurnOn(cid)
          /\ \A i \in TasksOf(tasks, conversations, cid) :
                /\ tasks'[i].sid = tasks[i].sid
                /\ tasks[i].pc # "scheduled" => tasks'[i].pc # "scheduled"]_vars

\* C33: the only task of a conversation has raised, and a later message turn
\* on the failed conversation has scheduled no other.
C33_Witness ==
    \E cid \in DOMAIN conversations :
        /\ conversations[cid].stage = "generation_failed"
        /\ Cardinality(TasksOf(tasks, conversations, cid)) = 1
        /\ TaskAt(cid, {"raised"})
        /\ last.op = "process_message"
        /\ last.id = cid
        /\ ~last.started

\* the generate_ads calls on session sid that are awaiting the ad generator
AwaitingOn(sid) ==
    {i \in DOMAIN tasks : tasks[i].sid = sid /\ tasks[i].pc = "awaiting"}

\* C34: of the generate_ads calls on one session at most one is awaiting the
\* four-variation fan-out: a call that starts while another is awaiting is
\* rejected by the stage gate, and a stored generation result is never
\* written again.
C34_SingleFanOut ==
    [][/\ \A sid \in DOMAIN sessions' : Cardinality(AwaitingOn(sid)') <= 1
       /\ \A sid \in DOMAIN sessions \cap DOMAIN sessions' :
             sessions[sid].generation_result # None =>
                sessions'[sid].generation_result = sessions[sid].generation_result]_vars

\* C35: every session in stage "generation" holds an image analysis and a
\* non-empty list of responses, so generate_ads on it passes the missing-data
\* check, whatever answer list was submitted.
C35_GenerationHasData ==
    \A sid \in DOMAIN sessions :
        sessions[sid].stage = "generation" =>
            /\ sessions[sid].image_analysis # None
            /\ sessions[sid].responses # <<>>
            /\ generate_ads_begin(sessions, sid) = "awaiting"

\* the session a conversation is linked to, if it is in the store
LinkedSession(conv) ==
    IF conv.session_id # None /\ conv.session_id[1] \in DOMAIN sessions
    THEN Some(sessions[conv.session_id[1]])
    ELSE None

\* C36: a conversation in asking_questions or ready_for_generation is linked
\* to a session that is in the store in stage "questions"; a conversation in
\* completed is linked to a session in stage "completed", and the generation
\* result of the conversation is the one of the session.
C36_InStep ==
    \A cid \in DOMAIN conversations :
        LET conv == conversations[cid]
            linked == LinkedSession(conv)
        IN  /\ conv.stage \in {"asking_questions", "ready_for_generation"} =>
                  /\ linked # None
                  /\ linked[1].stage = "questions"
            /\ conv.stage = "completed" =>
                  /\ linked # None
                  /\ linked[1].stage = "completed"
                  /\ conv.generation_result # None
                  /\ conv.generation_result = linked[1].generation_result

\* C36: the background task returned: conversation and session are both
\* completed and hold the same result with three answers behind it.
C36_Witness ==
    \E cid \in DOMAIN conversations :
        /\ conversations[cid].stage = "completed"
        /\ TaskAt(cid, {"returned_ok"})
        /\ LinkedSession(conversations[cid]) # None
        /\ LinkedSession(conversations[cid])[1].stage = "completed"
        /\ Len(LinkedSession(conversations[cid])[1].responses) = 3
        /\ conversations[cid].generation_result
              = LinkedSession(conversations[cid])[1].generation_result

\* C37: in every reachable state the stored stage of a conversation is
\* completed exactly when a generation result is stored in it, and a status
\* poll reports generation_complete exactly when it reports stage completed.
C37_CompletedIffResult ==
    /\ \A cid \in DOMAIN conversations :
          conversations[cid].stage = "completed"
             <=> conversations[cid].generation_result # None
    /\ last.op = "get_conversation_status" /\ last.kind = "ok" =>
          (last.complete <=> last.stage = "completed")

\* C38: from the step in which a conversation reached ready_for_generation
\* on, no step on its record changes its collected information, its question counter or
\* its pending question, whichever handler takes the turn; and the responses
\* stored in its session are the three collected values, in the order
\* target_audience, brand_tone, key_message.
C38_CollectedFrozen ==
    [][\A cid \in DOMAIN conversations :
          /\ conversations[cid].ready_for_generation /\ ~Replaced(cid) =>
                /\ conversations'[cid].ready_for_generation
                /\ conversations'[cid].collected_info
                      = conversations[cid].collected_info
                /\ conversations'[cid].questions_asked
                      = conversations[cid].questions_asked
                /\ conversations'[cid].current_question
                      = conversations[cid].current_question
          /\ LET after == conversations'[cid]
                 sid == after.session_id
             IN  sid # None /\ sid[1] \in DOMAIN sessions'
                    /\ sessions'[sid[1]].responses # <<>> =>
                    /\ after.ready_for_generation
                    /\ Len(sessions'[sid[1]].responses) = 3
                    /\ \A n \in 1..3 :
                          /\ sessions'[sid[1]].responses[n].question_id = TypeAt(n)
                          /\ Some(sessions'[sid[1]].responses[n].response)
                                = Collected(after, TypeAt(n))]_vars

\* C38: a turn of the modification sub-flow was answered and the conversation
\* still holds its three answers, its counter at 3 and the key-message question.
C38_Witness ==
    \E cid \in DOMAIN conversations :
        /\ last.op = "process_message"
        /\ last.id = cid
        /\ last.actions = "modify"
        /\ conversations[cid].stage = "ready_for_generation"
        /\ conversations[cid].questions_asked = 3
        /\ conversations[cid].current_question[1].type = "key_message"
        /\ \A n \in 1..3 : Collected(conversations[cid], TypeAt(n)) # None

\* C39: in every reachable state, a turn on a conversation in asking_questions
\* during which the question engine raises is answered with an error that
\* carries the stage asking_questions, and leaves the conversation as it was
\* except for its history, which has grown: stage, questions_asked, pending
\* question and collected information are unchanged, as are the sessions and
\* the tasks.
C39_FailedAnswerUnchanged ==
    \A cid \in DOMAIN conversations, msg \in Messages,
       image \in {None} \cup {Some(i) : i \in Images} :
        LET before == conversations[cid]
            conv == add_to_history(before)
        IN  before.stage = "asking_questions" /\ ~route_to_upload(conv, image) =>
               \A env \in RelevantEnvs(conv, msg, image) :
                  ~env.cls_ok =>
                     LET t == dispatch(cid, conv, msg, image, env)
                     IN  /\ t.reply.kind = "error"
                         /\ t.reply.stage = "asking_questions"
                         /\ t.conv.stage = "asking_questions"
                         /\ t.conv.questions_asked = before.questions_asked
                         /\ t.conv.current_question = before.current_question
                         /\ t.conv.collected_info = before.collected_info
                         /\ t.conv.conversation_history
                               > before.conversation_history
                         /\ [t.conv EXCEPT !.conversation_history =
                                before.conversation_history] = before
                         /\ t.sessions = sessions
                         /\ t.tasks = tasks

\* C39: a turn in asking_questions was answered with an error while the second
\* question was pending, and the conversation still waits for that answer with
\* only the first answer collected.
C39_Witness ==
    \E cid \in DOMAIN conversations :
        /\ last.op = "process_message"
        /\ last.id = cid
        /\ last.kind = "error"
        /\ last.stage = "asking_questions"
        /\ conversations[cid].stage = "asking_questions"
        /\ conversations[cid].questions_asked = 2
        /\ conversations[cid].current_question # None
        /\ conversations[cid].current_question[1].type = "brand_tone"
        /\ conversations[cid].collected_info.target_audience # None
        /\ conversations[cid].collected_info.brand_tone = None

====
